---- MODULE Spec2Model ----
(***************************************************************************)
(* A model of the Seek job monitor (src/main.py): one run of main() loads  *)
(* the seen set, searches every configured keyword with retry, parses each *)
(* page (embedded Redux JSON first, DOM cards as a fallback), collapses    *)
(* the aggregate by id, filters by location and exclusion keyword, hands   *)
(* every new job to the notifier and writes the seen set back.  Runs       *)
(* follow one another, each loading the file the previous ones left.       *)
(*                                                                         *)
(* Representation.  A Python str is a sequence of one-character strings,   *)
(* so that lower(), strip(), split(',') and the substring test are         *)
(* computed, not assumed.  A Python value that may be None, a str, an int  *)
(* or a dict is a record with the single field none, str, int or dict.     *)
(* A character outside ASCII, or with no escape in a TLA+ string, is       *)
(* written by its code point, as in "U+000B" or "U+00C9": one element of   *)
(* the sequence, one character.                                            *)
(***************************************************************************)
EXTENDS Integers, Sequences, FiniteSets, TLC

----------------------------------------------------------------------------
(* Python values *)

PyNone == [none |-> TRUE]
PyS(s) == [str |-> s]
PyI(n) == [int |-> n]
PyD(d) == [dict |-> d]

IsNone(v) == "none" \in DOMAIN v
IsStr(v) == "str" \in DOMAIN v
IsInt(v) == "int" \in DOMAIN v
IsDict(v) == "dict" \in DOMAIN v

\* bool(v).  The dicts of the model are non-empty, hence truthy.
Truthy(v) ==
    CASE IsNone(v) -> FALSE
      [] IsStr(v) -> Len(v.str) > 0
      [] IsInt(v) -> v.int # 0
      [] IsDict(v) -> TRUE

\* a or b
PyOr(a, b) == IF Truthy(a) THEN a ELSE b

Digits == <<"0", "1", "2", "3", "4", "5", "6", "7", "8", "9">>

RECURSIVE IntToStr(_)
IntToStr(n) ==
    IF n < 10 THEN <<Digits[n + 1]>>
    ELSE IntToStr(n \div 10) \o <<Digits[(n % 10) + 1]>>

\* str(v), for the values an id can take: str(None) is the text None.
PyStr(v) ==
    CASE IsStr(v) -> v.str
      [] IsInt(v) -> IntToStr(v.int)
      [] IsNone(v) -> <<"N", "o", "n", "e">>

----------------------------------------------------------------------------
(* str methods *)

\* [f(x) for x in s]
Range(s) == {s[i] : i \in 1..Len(s)}

\* Characters outside ASCII are written by code point, "U+" and at least four
\* hexadecimal digits.
HexDigits == <<"0", "1", "2", "3", "4", "5", "6", "7",
               "8", "9", "A", "B", "C", "D", "E", "F">>

RECURSIVE Hex(_, _)
Hex(n, width) ==
    IF n = 0 /\ width <= 0 THEN ""
    ELSE Hex(n \div 16, width - 1) \o HexDigits[(n % 16) + 1]

\* the characters of code points 32 to 126, in order
AsciiPrintable ==
    <<" ", "!", "\"", "#", "$", "%", "&", "'", "(", ")", "*", "+", ",", "-",
      ".", "/", "0", "1", "2", "3", "4", "5", "6", "7", "8", "9", ":", ";",
      "<", "=", ">", "?", "@", "A", "B", "C", "D", "E", "F", "G", "H", "I",
      "J", "K", "L", "M", "N", "O", "P", "Q", "R", "S", "T", "U", "V", "W",
      "X", "Y", "Z", "[", "\\", "]", "^", "_", "U+0060", "a", "b", "c", "d",
      "e", "f", "g", "h", "i", "j", "k", "l", "m", "n", "o", "p", "q", "r",
      "s", "t", "u", "v", "w", "x", "y", "z", "{", "|", "}", "~">>

\* chr(n): the character itself in ASCII, its code point elsewhere
Chr(n) ==
    IF n \in 32..126 THEN AsciiPrintable[n - 31]
    ELSE IF n = 9 THEN "\t"
    ELSE IF n = 10 THEN "\n"
    ELSE IF n = 12 THEN "\f"
    ELSE IF n = 13 THEN "\r"
    ELSE "U+" \o Hex(n, 4)

\* the characters of the code point ranges <<first, last>>
CodePoints(ranges) ==
    UNION {{Chr(n) : n \in ranges[i][1]..ranges[i][2]} : i \in 1..Len(ranges)}

\* The tables of the Unicode database of the interpreter (Unicode 14.0), as
\* code point ranges outside ASCII.

\* decimal digits (category Nd): what \d of a str pattern matches
DecimalDigitRanges ==
    <<<<1632, 1641>>, <<1776, 1785>>, <<1984, 1993>>, <<2406, 2415>>, <<2534,
      2543>>, <<2662, 2671>>, <<2790, 2799>>, <<2918, 2927>>, <<3046, 3055>>,
      <<3174, 3183>>, <<3302, 3311>>, <<3430, 3439>>, <<3558, 3567>>, <<3664,
      3673>>, <<3792, 3801>>, <<3872, 3881>>, <<4160, 4169>>, <<4240, 4249>>,
      <<6112, 6121>>, <<6160, 6169>>, <<6470, 6479>>, <<6608, 6617>>, <<6784,
      6793>>, <<6800, 6809>>, <<6992, 7001>>, <<7088, 7097>>, <<7232, 7241>>,
      <<7248, 7257>>, <<42528, 42537>>, <<43216, 43225>>, <<43264, 43273>>,
      <<43472, 43481>>, <<43504, 43513>>, <<43600, 43609>>, <<44016, 44025>>,
      <<65296, 65305>>, <<66720, 66729>>, <<68912, 68921>>, <<69734, 69743>>,
      <<69872, 69881>>, <<69942, 69951>>, <<70096, 70105>>, <<70384, 70393>>,
      <<70736, 70745>>, <<70864, 70873>>, <<71248, 71257>>, <<71360, 71369>>,
      <<71472, 71481>>, <<71904, 71913>>, <<72016, 72025>>, <<72784, 72793>>,
      <<73040, 73049>>, <<73120, 73129>>, <<92768, 92777>>, <<92864, 92873>>,
      <<93008, 93017>>, <<120782, 120831>>, <<123200, 123209>>, <<123632,
      123641>>, <<125264, 125273>>, <<130032, 130041>>>>
\* cased characters (Lowercase, Uppercase or titlecase letters)
CasedRanges ==
    <<<<170, 170>>, <<181, 181>>, <<186, 186>>, <<192, 214>>, <<216, 246>>,
      <<248, 442>>, <<444, 447>>, <<452, 659>>, <<661, 696>>, <<704, 705>>,
      <<736, 740>>, <<837, 837>>, <<880, 883>>, <<886, 887>>, <<890, 893>>,
      <<895, 895>>, <<902, 902>>, <<904, 906>>, <<908, 908>>, <<910, 929>>,
      <<931, 1013>>, <<1015, 1153>>, <<1162, 1327>>, <<1329, 1366>>, <<1376,
      1416>>, <<4256, 4293>>, <<4295, 4295>>, <<4301, 4301>>, <<4304, 4346>>,
      <<4349, 4351>>, <<5024, 5109>>, <<5112, 5117>>, <<7296, 7304>>, <<7312,
      7354>>, <<7357, 7359>>, <<7424, 7615>>, <<7680, 7957>>, <<7960, 7965>>,
      <<7968, 8005>>, <<8008, 8013>>, <<8016, 8023>>, <<8025, 8025>>, <<8027,
      8027>>, <<8029, 8029>>, <<8031, 8061>>, <<8064, 8116>>, <<8118, 8124>>,
      <<8126, 8126>>, <<8130, 8132>>, <<8134, 8140>>, <<8144, 8147>>, <<8150,
      8155>>, <<8160, 8172>>, <<8178, 8180>>, <<8182, 8188>>, <<8305, 8305>>,
      <<8319, 8319>>, <<8336, 8348>>, <<8450, 8450>>, <<8455, 8455>>, <<8458,
      8467>>, <<8469, 8469>>, <<8473, 8477>>, <<8484, 8484>>, <<8486, 8486>>,
      <<8488, 8488>>, <<8490, 8493>>, <<8495, 8500>>, <<8505, 8505>>, <<8508,
      8511>>, <<8517, 8521>>, <<8526, 8526>>, <<8544, 8575>>, <<8579, 8580>>,
      <<9398, 9449>>, <<11264, 11492>>, <<11499, 11502>>, <<11506, 11507>>,
      <<11520, 11557>>, <<11559, 11559>>, <<11565, 11565>>, <<42560, 42605>>,
      <<42624, 42653>>, <<42786, 42887>>, <<42891, 42894>>, <<42896, 42954>>,
      <<42960, 42961>>, <<42963, 42963>>, <<42965, 42969>>, <<42997, 42998>>,
      <<43000, 43002>>, <<43824, 43866>>, <<43868, 43880>>, <<43888, 43967>>,
      <<64256, 64262>>, <<64275, 64279>>, <<65313, 65338>>, <<65345, 65370>>,
      <<66560, 66639>>, <<66736, 66771>>, <<66776, 66811>>, <<66928, 66938>>,
      <<66940, 66954>>, <<66956, 66962>>, <<66964, 66965>>, <<66967, 66977>>,
      <<66979, 66993>>, <<66995, 67001>>, <<67003, 67004>>, <<67456, 67456>>,
      <<67459, 67461>>, <<67463, 67504>>, <<67506, 67514>>, <<68736, 68786>>,
      <<68800, 68850>>, <<71840, 71903>>, <<93760, 93823>>, <<119808, 119892>>,
      <<119894, 119964>>, <<119966, 119967>>, <<119970, 119970>>, <<119973,
      119974>>, <<119977, 119980>>, <<119982, 119993>>, <<119995, 119995>>,
      <<119997, 120003>>, <<120005, 120069>>, <<120071, 120074>>, <<120077,
      120084>>, <<120086, 120092>>, <<120094, 120121>>, <<120123, 120126>>,
      <<120128, 120132>>, <<120134, 120134>>, <<120138, 120144>>, <<120146,
      120485>>, <<120488, 120512>>, <<120514, 120538>>, <<120540, 120570>>,
      <<120572, 120596>>, <<120598, 120628>>, <<120630, 120654>>, <<120656,
      120686>>, <<120688, 120712>>, <<120714, 120744>>, <<120746, 120770>>,
      <<120772, 120779>>, <<122624, 122633>>, <<122635, 122654>>, <<125184,
      125251>>, <<127280, 127305>>, <<127312, 127337>>, <<127344, 127369>>>>
\* case-ignorable characters
CaseIgnorableRanges ==
    <<<<168, 168>>, <<173, 173>>, <<175, 175>>, <<180, 180>>, <<183, 184>>,
      <<688, 879>>, <<884, 885>>, <<890, 890>>, <<900, 901>>, <<903, 903>>,
      <<1155, 1161>>, <<1369, 1369>>, <<1375, 1375>>, <<1425, 1469>>, <<1471,
      1471>>, <<1473, 1474>>, <<1476, 1477>>, <<1479, 1479>>, <<1524, 1524>>,
      <<1536, 1541>>, <<1552, 1562>>, <<1564, 1564>>, <<1600, 1600>>, <<1611,
      1631>>, <<1648, 1648>>, <<1750, 1757>>, <<1759, 1768>>, <<1770, 1773>>,
      <<1807, 1807>>, <<1809, 1809>>, <<1840, 1866>>, <<1958, 1968>>, <<2027,
      2037>>, <<2042, 2042>>, <<2045, 2045>>, <<2070, 2093>>, <<2137, 2139>>,
      <<2184, 2184>>, <<2192, 2193>>, <<2200, 2207>>, <<2249, 2306>>, <<2362,
      2362>>, <<2364, 2364>>, <<2369, 2376>>, <<2381, 2381>>, <<2385, 2391>>,
      <<2402, 2403>>, <<2417, 2417>>, <<2433, 2433>>, <<2492, 2492>>, <<2497,
      2500>>, <<2509, 2509>>, <<2530, 2531>>, <<2558, 2558>>, <<2561, 2562>>,
      <<2620, 2620>>, <<2625, 2626>>, <<2631, 2632>>, <<2635, 2637>>, <<2641,
      2641>>, <<2672, 2673>>, <<2677, 2677>>, <<2689, 2690>>, <<2748, 2748>>,
      <<2753, 2757>>, <<2759, 2760>>, <<2765, 2765>>, <<2786, 2787>>, <<2810,
      2815>>, <<2817, 2817>>, <<2876, 2876>>, <<2879, 2879>>, <<2881, 2884>>,
      <<2893, 2893>>, <<2901, 2902>>, <<2914, 2915>>, <<2946, 2946>>, <<3008,
      3008>>, <<3021, 3021>>, <<3072, 3072>>, <<3076, 3076>>, <<3132, 3132>>,
      <<3134, 3136>>, <<3142, 3144>>, <<3146, 3149>>, <<3157, 3158>>, <<3170,
      3171>>, <<3201, 3201>>, <<3260, 3260>>, <<3263, 3263>>, <<3270, 3270>>,
      <<3276, 3277>>, <<3298, 3299>>, <<3328, 3329>>, <<3387, 3388>>, <<3393,
      3396>>, <<3405, 3405>>, <<3426, 3427>>, <<3457, 3457>>, <<3530, 3530>>,
      <<3538, 3540>>, <<3542, 3542>>, <<3633, 3633>>, <<3636, 3642>>, <<3654,
      3662>>, <<3761, 3761>>, <<3764, 3772>>, <<3782, 3782>>, <<3784, 3789>>,
      <<3864, 3865>>, <<3893, 3893>>, <<3895, 3895>>, <<3897, 3897>>, <<3953,
      3966>>, <<3968, 3972>>, <<3974, 3975>>, <<3981, 3991>>, <<3993, 4028>>,
      <<4038, 4038>>, <<4141, 4144>>, <<4146, 4151>>, <<4153, 4154>>, <<4157,
      4158>>, <<4184, 4185>>, <<4190, 4192>>, <<4209, 4212>>, <<4226, 4226>>,
      <<4229, 4230>>, <<4237, 4237>>, <<4253, 4253>>, <<4348, 4348>>, <<4957,
      4959>>, <<5906, 5908>>, <<5938, 5939>>, <<5970, 5971>>, <<6002, 6003>>,
      <<6068, 6069>>, <<6071, 6077>>, <<6086, 6086>>, <<6089, 6099>>, <<6103,
      6103>>, <<6109, 6109>>, <<6155, 6159>>, <<6211, 6211>>, <<6277, 6278>>,
      <<6313, 6313>>, <<6432, 6434>>, <<6439, 6440>>, <<6450, 6450>>, <<6457,
      6459>>, <<6679, 6680>>, <<6683, 6683>>, <<6742, 6742>>, <<6744, 6750>>,
      <<6752, 6752>>, <<6754, 6754>>, <<6757, 6764>>, <<6771, 6780>>, <<6783,
      6783>>, <<6823, 6823>>, <<6832, 6862>>, <<6912, 6915>>, <<6964, 6964>>,
      <<6966, 6970>>, <<6972, 6972>>, <<6978, 6978>>, <<7019, 7027>>, <<7040,
      7041>>, <<7074, 7077>>, <<7080, 7081>>, <<7083, 7085>>, <<7142, 7142>>,
      <<7144, 7145>>, <<7149, 7149>>, <<7151, 7153>>, <<7212, 7219>>, <<7222,
      7223>>, <<7288, 7293>>, <<7376, 7378>>, <<7380, 7392>>, <<7394, 7400>>,
      <<7405, 7405>>, <<7412, 7412>>, <<7416, 7417>>, <<7468, 7530>>, <<7544,
      7544>>, <<7579, 7679>>, <<8125, 8125>>, <<8127, 8129>>, <<8141, 8143>>,
      <<8157, 8159>>, <<8173, 8175>>, <<8189, 8190>>, <<8203, 8207>>, <<8216,
      8217>>, <<8228, 8228>>, <<8231, 8231>>, <<8234, 8238>>, <<8288, 8292>>,
      <<8294, 8303>>, <<8305, 8305>>, <<8319, 8319>>, <<8336, 8348>>, <<8400,
      8432>>, <<11388, 11389>>, <<11503, 11505>>, <<11631, 11631>>, <<11647,
      11647>>, <<11744, 11775>>, <<11823, 11823>>, <<12293, 12293>>, <<12330,
      12333>>, <<12337, 12341>>, <<12347, 12347>>, <<12441, 12446>>, <<12540,
      12542>>, <<40981, 40981>>, <<42232, 42237>>, <<42508, 42508>>, <<42607,
      42610>>, <<42612, 42621>>, <<42623, 42623>>, <<42652, 42655>>, <<42736,
      42737>>, <<42752, 42785>>, <<42864, 42864>>, <<42888, 42890>>, <<42994,
      42996>>, <<43000, 43001>>, <<43010, 43010>>, <<43014, 43014>>, <<43019,
      43019>>, <<43045, 43046>>, <<43052, 43052>>, <<43204, 43205>>, <<43232,
      43249>>, <<43263, 43263>>, <<43302, 43309>>, <<43335, 43345>>, <<43392,
      43394>>, <<43443, 43443>>, <<43446, 43449>>, <<43452, 43453>>, <<43471,
      43471>>, <<43493, 43494>>, <<43561, 43566>>, <<43569, 43570>>, <<43573,
      43574>>, <<43587, 43587>>, <<43596, 43596>>, <<43632, 43632>>, <<43644,
      43644>>, <<43696, 43696>>, <<43698, 43700>>, <<43703, 43704>>, <<43710,
      43711>>, <<43713, 43713>>, <<43741, 43741>>, <<43756, 43757>>, <<43763,
      43764>>, <<43766, 43766>>, <<43867, 43871>>, <<43881, 43883>>, <<44005,
      44005>>, <<44008, 44008>>, <<44013, 44013>>, <<64286, 64286>>, <<64434,
      64450>>, <<65024, 65039>>, <<65043, 65043>>, <<65056, 65071>>, <<65106,
      65106>>, <<65109, 65109>>, <<65279, 65279>>, <<65287, 65287>>, <<65294,
      65294>>, <<65306, 65306>>, <<65342, 65342>>, <<65344, 65344>>, <<65392,
      65392>>, <<65438, 65439>>, <<65507, 65507>>, <<65529, 65531>>, <<66045,
      66045>>, <<66272, 66272>>, <<66422, 66426>>, <<67456, 67461>>, <<67463,
      67504>>, <<67506, 67514>>, <<68097, 68099>>, <<68101, 68102>>, <<68108,
      68111>>, <<68152, 68154>>, <<68159, 68159>>, <<68325, 68326>>, <<68900,
      68903>>, <<69291, 69292>>, <<69446, 69456>>, <<69506, 69509>>, <<69633,
      69633>>, <<69688, 69702>>, <<69744, 69744>>, <<69747, 69748>>, <<69759,
      69761>>, <<69811, 69814>>, <<69817, 69818>>, <<69821, 69821>>, <<69826,
      69826>>, <<69837, 69837>>, <<69888, 69890>>, <<69927, 69931>>, <<69933,
      69940>>, <<70003, 70003>>, <<70016, 70017>>, <<70070, 70078>>, <<70089,
      70092>>, <<70095, 70095>>, <<70191, 70193>>, <<70196, 70196>>, <<70198,
      70199>>, <<70206, 70206>>, <<70367, 70367>>, <<70371, 70378>>, <<70400,
      70401>>, <<70459, 70460>>, <<70464, 70464>>, <<70502, 70508>>, <<70512,
      70516>>, <<70712, 70719>>, <<70722, 70724>>, <<70726, 70726>>, <<70750,
      70750>>, <<70835, 70840>>, <<70842, 70842>>, <<70847, 70848>>, <<70850,
      70851>>, <<71090, 71093>>, <<71100, 71101>>, <<71103, 71104>>, <<71132,
      71133>>, <<71219, 71226>>, <<71229, 71229>>, <<71231, 71232>>, <<71339,
      71339>>, <<71341, 71341>>, <<71344, 71349>>, <<71351, 71351>>, <<71453,
      71455>>, <<71458, 71461>>, <<71463, 71467>>, <<71727, 71735>>, <<71737,
      71738>>, <<71995, 71996>>, <<71998, 71998>>, <<72003, 72003>>, <<72148,
      72151>>, <<72154, 72155>>, <<72160, 72160>>, <<72193, 72202>>, <<72243,
      72248>>, <<72251, 72254>>, <<72263, 72263>>, <<72273, 72278>>, <<72281,
      72283>>, <<72330, 72342>>, <<72344, 72345>>, <<72752, 72758>>, <<72760,
      72765>>, <<72767, 72767>>, <<72850, 72871>>, <<72874, 72880>>, <<72882,
      72883>>, <<72885, 72886>>, <<73009, 73014>>, <<73018, 73018>>, <<73020,
      73021>>, <<73023, 73029>>, <<73031, 73031>>, <<73104, 73105>>, <<73109,
      73109>>, <<73111, 73111>>, <<73459, 73460>>, <<78896, 78904>>, <<92912,
      92916>>, <<92976, 92982>>, <<92992, 92995>>, <<94031, 94031>>, <<94095,
      94111>>, <<94176, 94177>>, <<94179, 94180>>, <<110576, 110579>>, <<110581,
      110587>>, <<110589, 110590>>, <<113821, 113822>>, <<113824, 113827>>,
      <<118528, 118573>>, <<118576, 118598>>, <<119143, 119145>>, <<119155,
      119170>>, <<119173, 119179>>, <<119210, 119213>>, <<119362, 119364>>,
      <<121344, 121398>>, <<121403, 121452>>, <<121461, 121461>>, <<121476,
      121476>>, <<121499, 121503>>, <<121505, 121519>>, <<122880, 122886>>,
      <<122888, 122904>>, <<122907, 122913>>, <<122915, 122916>>, <<122918,
      122922>>, <<123184, 123197>>, <<123566, 123566>>, <<123628, 123631>>,
      <<125136, 125142>>, <<125252, 125259>>, <<127995, 127999>>, <<917505,
      917505>>, <<917536, 917631>>, <<917760, 917999>>>>
\* the characters str.lower() changes into one other character, as runs
\* <<first, last, step, offset>>: every step-th code point n of first..last
\* becomes n + offset
LowerRuns ==
    <<<<192, 214, 1, 32>>, <<216, 222, 1, 32>>, <<256, 302, 2, 1>>, <<306, 310,
      2, 1>>, <<313, 327, 2, 1>>, <<330, 374, 2, 1>>, <<376, 376, 1, -121>>,
      <<377, 381, 2, 1>>, <<385, 385, 1, 210>>, <<386, 388, 2, 1>>, <<390, 390,
      1, 206>>, <<391, 391, 1, 1>>, <<393, 394, 1, 205>>, <<395, 395, 1, 1>>,
      <<398, 398, 1, 79>>, <<399, 399, 1, 202>>, <<400, 400, 1, 203>>, <<401,
      401, 1, 1>>, <<403, 403, 1, 205>>, <<404, 404, 1, 207>>, <<406, 406, 1,
      211>>, <<407, 407, 1, 209>>, <<408, 408, 1, 1>>, <<412, 412, 1, 211>>,
      <<413, 413, 1, 213>>, <<415, 415, 1, 214>>, <<416, 420, 2, 1>>, <<422,
      422, 1, 218>>, <<423, 423, 1, 1>>, <<425, 425, 1, 218>>, <<428, 428, 1,
      1>>, <<430, 430, 1, 218>>, <<431, 431, 1, 1>>, <<433, 434, 1, 217>>,
      <<435, 437, 2, 1>>, <<439, 439, 1, 219>>, <<440, 440, 1, 1>>, <<444, 444,
      1, 1>>, <<452, 452, 1, 2>>, <<453, 453, 1, 1>>, <<455, 455, 1, 2>>, <<456,
      456, 1, 1>>, <<458, 458, 1, 2>>, <<459, 475, 2, 1>>, <<478, 494, 2, 1>>,
      <<497, 497, 1, 2>>, <<498, 500, 2, 1>>, <<502, 502, 1, -97>>, <<503, 503,
      1, -56>>, <<504, 542, 2, 1>>, <<544, 544, 1, -130>>, <<546, 562, 2, 1>>,
      <<570, 570, 1, 10795>>, <<571, 571, 1, 1>>, <<573, 573, 1, -163>>, <<574,
      574, 1, 10792>>, <<577, 577, 1, 1>>, <<579, 579, 1, -195>>, <<580, 580, 1,
      69>>, <<581, 581, 1, 71>>, <<582, 590, 2, 1>>, <<880, 882, 2, 1>>, <<886,
      886, 1, 1>>, <<895, 895, 1, 116>>, <<902, 902, 1, 38>>, <<904, 906, 1,
      37>>, <<908, 908, 1, 64>>, <<910, 911, 1, 63>>, <<913, 929, 1, 32>>,
      <<931, 939, 1, 32>>, <<975, 975, 1, 8>>, <<984, 1006, 2, 1>>, <<1012,
      1012, 1, -60>>, <<1015, 1015, 1, 1>>, <<1017, 1017, 1, -7>>, <<1018, 1018,
      1, 1>>, <<1021, 1023, 1, -130>>, <<1024, 1039, 1, 80>>, <<1040, 1071, 1,
      32>>, <<1120, 1152, 2, 1>>, <<1162, 1214, 2, 1>>, <<1216, 1216, 1, 15>>,
      <<1217, 1229, 2, 1>>, <<1232, 1326, 2, 1>>, <<1329, 1366, 1, 48>>, <<4256,
      4293, 1, 7264>>, <<4295, 4295, 1, 7264>>, <<4301, 4301, 1, 7264>>, <<5024,
      5103, 1, 38864>>, <<5104, 5109, 1, 8>>, <<7312, 7354, 1, -3008>>, <<7357,
      7359, 1, -3008>>, <<7680, 7828, 2, 1>>, <<7838, 7838, 1, -7615>>, <<7840,
      7934, 2, 1>>, <<7944, 7951, 1, -8>>, <<7960, 7965, 1, -8>>, <<7976, 7983,
      1, -8>>, <<7992, 7999, 1, -8>>, <<8008, 8013, 1, -8>>, <<8025, 8031, 2,
      -8>>, <<8040, 8047, 1, -8>>, <<8072, 8079, 1, -8>>, <<8088, 8095, 1, -8>>,
      <<8104, 8111, 1, -8>>, <<8120, 8121, 1, -8>>, <<8122, 8123, 1, -74>>,
      <<8124, 8124, 1, -9>>, <<8136, 8139, 1, -86>>, <<8140, 8140, 1, -9>>,
      <<8152, 8153, 1, -8>>, <<8154, 8155, 1, -100>>, <<8168, 8169, 1, -8>>,
      <<8170, 8171, 1, -112>>, <<8172, 8172, 1, -7>>, <<8184, 8185, 1, -128>>,
      <<8186, 8187, 1, -126>>, <<8188, 8188, 1, -9>>, <<8486, 8486, 1, -7517>>,
      <<8490, 8490, 1, -8383>>, <<8491, 8491, 1, -8262>>, <<8498, 8498, 1, 28>>,
      <<8544, 8559, 1, 16>>, <<8579, 8579, 1, 1>>, <<9398, 9423, 1, 26>>,
      <<11264, 11311, 1, 48>>, <<11360, 11360, 1, 1>>, <<11362, 11362, 1,
      -10743>>, <<11363, 11363, 1, -3814>>, <<11364, 11364, 1, -10727>>,
      <<11367, 11371, 2, 1>>, <<11373, 11373, 1, -10780>>, <<11374, 11374, 1,
      -10749>>, <<11375, 11375, 1, -10783>>, <<11376, 11376, 1, -10782>>,
      <<11378, 11378, 1, 1>>, <<11381, 11381, 1, 1>>, <<11390, 11391, 1,
      -10815>>, <<11392, 11490, 2, 1>>, <<11499, 11501, 2, 1>>, <<11506, 11506,
      1, 1>>, <<42560, 42604, 2, 1>>, <<42624, 42650, 2, 1>>, <<42786, 42798, 2,
      1>>, <<42802, 42862, 2, 1>>, <<42873, 42875, 2, 1>>, <<42877, 42877, 1,
      -35332>>, <<42878, 42886, 2, 1>>, <<42891, 42891, 1, 1>>, <<42893, 42893,
      1, -42280>>, <<42896, 42898, 2, 1>>, <<42902, 42920, 2, 1>>, <<42922,
      42922, 1, -42308>>, <<42923, 42923, 1, -42319>>, <<42924, 42924, 1,
      -42315>>, <<42925, 42925, 1, -42305>>, <<42926, 42926, 1, -42308>>,
      <<42928, 42928, 1, -42258>>, <<42929, 42929, 1, -42282>>, <<42930, 42930,
      1, -42261>>, <<42931, 42931, 1, 928>>, <<42932, 42946, 2, 1>>, <<42948,
      42948, 1, -48>>, <<42949, 42949, 1, -42307>>, <<42950, 42950, 1, -35384>>,
      <<42951, 42953, 2, 1>>, <<42960, 42960, 1, 1>>, <<42966, 42968, 2, 1>>,
      <<42997, 42997, 1, 1>>, <<65313, 65338, 1, 32>>, <<66560, 66599, 1, 40>>,
      <<66736, 66771, 1, 40>>, <<66928, 66938, 1, 39>>, <<66940, 66954, 1, 39>>,
      <<66956, 66962, 1, 39>>, <<66964, 66965, 1, 39>>, <<68736, 68786, 1, 64>>,
      <<71840, 71871, 1, 32>>, <<93760, 93791, 1, 32>>, <<125184, 125217, 1,
      34>>>>
UpperCase == <<"A", "B", "C", "D", "E", "F", "G", "H", "I", "J", "K", "L", "M",
               "N", "O", "P", "Q", "R", "S", "T", "U", "V", "W", "X", "Y", "Z">>
LowerCase == <<"a", "b", "c", "d", "e", "f", "g", "h", "i", "j", "k", "l", "m",
               "n", "o", "p", "q", "r", "s", "t", "u", "v", "w", "x", "y", "z">>

\* <<c, lower of c>> for every character c that lower() changes
LowerPairs ==
    {<<UpperCase[i], <<LowerCase[i]>>>> : i \in 1..Len(UpperCase)}
        \cup UNION {{<<Chr(n), <<Chr(n + LowerRuns[r][4])>>>> :
                        n \in {m \in LowerRuns[r][1]..LowerRuns[r][2] :
                                  (m - LowerRuns[r][1]) % LowerRuns[r][3] = 0}} :
                    r \in 1..Len(LowerRuns)}
        \cup {<<"U+0130", <<"i", "U+0307">>>>}

LowerTable ==
    [c \in {p[1] : p \in LowerPairs} |-> (CHOOSE p \in LowerPairs : p[1] = c)[2]]

Cased == Range(UpperCase) \cup Range(LowerCase) \cup CodePoints(CasedRanges)

\* (the grave accent is written by its code point as well)
CaseIgnorable == {"'", ".", ":", "^", "U+0060"} \cup CodePoints(CaseIgnorableRanges)

\* lower() of one character, where it stands: a capital sigma becomes the
\* final sigma when a cased character stands before it and none after it,
\* case-ignorable characters passed over; any other character by the table.
LowerChar(s, i) ==
    IF s[i] = "U+03A3"
    THEN LET before == {j \in 1..(i - 1) : s[j] \notin CaseIgnorable}
             after == {j \in (i + 1)..Len(s) : s[j] \notin CaseIgnorable}
             last == CHOOSE j \in before : \A k \in before : k <= j
             next == CHOOSE j \in after : \A k \in after : j <= k
         IN  IF /\ before # {}
                /\ s[last] \in Cased
                /\ (after = {} \/ s[next] \notin Cased)
             THEN <<"U+03C2">>
             ELSE <<"U+03C3">>
    ELSE IF s[i] \in DOMAIN LowerTable THEN LowerTable[s[i]]
    ELSE <<s[i]>>

RECURSIVE LowerFrom(_, _)
LowerFrom(s, i) == IF i > Len(s) THEN <<>> ELSE LowerChar(s, i) \o LowerFrom(s, i + 1)

\* s.lower()
Lower(s) == LowerFrom(s, 1)

\* The characters str.strip() removes: those for which str.isspace() holds.
Whitespace ==
    {"\t", "\n", "U+000B", "\f", "\r", "U+001C", "U+001D", "U+001E", "U+001F", " ",
     "U+0085", "U+00A0", "U+1680", "U+2000", "U+2001", "U+2002", "U+2003",
     "U+2004", "U+2005", "U+2006", "U+2007", "U+2008", "U+2009", "U+200A",
     "U+2028", "U+2029", "U+202F", "U+205F", "U+3000"}

IsSpace(c) == c \in Whitespace

RECURSIVE LStrip(_)
LStrip(s) == IF s # <<>> /\ IsSpace(Head(s)) THEN LStrip(Tail(s)) ELSE s

RECURSIVE RStrip(_)
RStrip(s) ==
    IF s # <<>> /\ IsSpace(s[Len(s)]) THEN RStrip(SubSeq(s, 1, Len(s) - 1)) ELSE s

\* s.strip()
Strip(s) == RStrip(LStrip(s))

RECURSIVE SplitFrom(_, _, _)
SplitFrom(s, sep, cur) ==
    IF s = <<>> THEN <<cur>>
    ELSE IF Head(s) = sep THEN <<cur>> \o SplitFrom(Tail(s), sep, <<>>)
    ELSE SplitFrom(Tail(s), sep, Append(cur, Head(s)))

\* s.split(sep), sep one character: ''.split(',') is [''].
Split(s, sep) == SplitFrom(s, sep, <<>>)

\* sub in s
Contains(sub, s) ==
    \E i \in 0..(Len(s) - Len(sub)) : SubSeq(s, i + 1, i + Len(sub)) = sub

\* sub.startswith, at position i (1-based) of s
StartsAt(s, i, sub) ==
    /\ i + Len(sub) - 1 <= Len(s)
    /\ SubSeq(s, i, i + Len(sub) - 1) = sub

\* the characters \d of a str pattern matches
DecimalDigits == Range(Digits) \cup CodePoints(DecimalDigitRanges)

IsDigit(c) == c \in DecimalDigits


----------------------------------------------------------------------------
(* Configuration parsing and the two filters *)

\* [k.strip().lower() for k in env.split(",") if k.strip()]
ParseExcludeKeywords(env) ==
    LET kept == SelectSeq(Split(env, ","), LAMBDA k : Strip(k) # <<>>)
    IN  [i \in 1..Len(kept) |-> Lower(Strip(kept[i]))]

\* (job.get(field) or '')
StrOrEmpty(v) == IF Truthy(v) THEN v.str ELSE <<>>

looks_automated(job, exclude) ==
    LET title == Lower(StrOrEmpty(job.title))
        advertiser == Lower(StrOrEmpty(job.advertiser))
    IN  \E i \in 1..Len(exclude) :
            Contains(exclude[i], title) \/ Contains(exclude[i], advertiser)

\* matches_location without the test for an empty or sentinel location
matches_location_no_sentinel(job, desired_location) ==
    IF desired_location = <<>> THEN TRUE
    ELSE
        LET loc == Strip(StrOrEmpty(job.location))
            kept == SelectSeq(Split(desired_location, ","), LAMBDA d : Strip(d) # <<>>)
            desired_tokens == [i \in 1..Len(kept) |-> Lower(Strip(kept[i]))]
        IN  \E i \in 1..Len(desired_tokens) : Contains(desired_tokens[i], Lower(loc))

matches_location(job, desired_location) ==
    IF desired_location = <<>> THEN TRUE
    ELSE
        LET loc == Strip(StrOrEmpty(job.location))
            kept == SelectSeq(Split(desired_location, ","), LAMBDA d : Strip(d) # <<>>)
            desired_tokens == [i \in 1..Len(kept) |-> Lower(Strip(kept[i]))]
            job_loc == Lower(loc)
        IN  IF loc = <<>>
               \/ Lower(loc) = <<"u", "n", "k", "n", "o", "w", "n">>
               \/ Lower(loc) = <<"n", "/", "a">>
            THEN FALSE
            ELSE \E i \in 1..Len(desired_tokens) : Contains(desired_tokens[i], job_loc)

----------------------------------------------------------------------------
(* Page extraction: SeekScraper._parse_response *)

sUnknown == <<"U", "n", "k", "n", "o", "w", "n">>
sNA == <<"N", "/", "A">>
sJobPath == <<"/", "j", "o", "b", "/">>

\* The site origin; SEEK_BASE_URL overrides the default, the model runs with "//s".
BASE_URL == <<"/", "/", "s">>

\* A JSON list is [list |-> <<...>>]; any other node is a Python value.
PyL(items) == [list |-> items]
IsList(v) == "list" \in DOMAIN v

\* A page is what the two strategies read from it:
\*   redux - the object json.loads returned for the SEEK_REDUX_DATA blob, as
\*           the three nodes its known paths resolve to, or PyNone when no
\*           script matched or the blob did not parse;
\*   dom   - the elements the DOM strategy can take as candidates, in document
\*           order: the articles, and the anchors that lie in no article,
\*           each with the results of the lookups the code makes on it.
ReduxPaths == <<"results_jobs", "search_results_jobs", "jobs">>

\* node reached by one of ['results','jobs'], ['search','results','jobs'], ['jobs']
PathNode(redux_json, path) ==
    CASE path = "results_jobs" -> redux_json.dict.results_jobs
      [] path = "search_results_jobs" -> redux_json.dict.search_results_jobs
      [] path = "jobs" -> redux_json.dict.jobs

\* for path in (...): if isinstance(node, list) and node: results_list = node; break
\* else: results_list = []
ResultsList(redux_json) ==
    LET hits == {i \in 1..Len(ReduxPaths) :
                    LET node == PathNode(redux_json, ReduxPaths[i])
                    IN  IsList(node) /\ node.list # <<>>}
    IN  IF hits = {} THEN <<>>
        ELSE PathNode(redux_json,
                      ReduxPaths[CHOOSE i \in hits : \A j \in hits : i <= j]).list

\* An item is a JSON object (a record of its keys, PyNone for an absent key) or
\* some other JSON value, on which item.get raises.
IsItemObject(item) == "id" \in DOMAIN item

\* jid = str(item.get('id') or item.get('jobId') or item.get('job_id'))
ItemJid(item) == PyStr(PyOr(PyOr(item.id, item.jobId), item.job_id))

JobUrl(jid) == BASE_URL \o sJobPath \o jid

\* the dict appended for one item of the Redux list
ReduxJob(item) ==
    [id |-> PyS(ItemJid(item)),
     title |-> PyOr(PyOr(item.title, item.occupation), PyS(sUnknown)),
     advertiser |-> IF IsDict(item.advertiser)
                    THEN item.advertiser.dict.description
                    ELSE PyOr(item.advertiser, PyS(sUnknown)),
     location |-> PyOr(item.location, PyS(sUnknown)),
     salary |-> PyOr(item.salary, PyS(sNA)),
     url |-> PyS(JobUrl(ItemJid(item))),
     listingDate |-> PyOr(PyOr(item.listingDate, item.postedDate), PyS(sUnknown))]

\* for item in results_list: try: jobs.append({...}) except Exception: continue
RECURSIVE ReduxJobs(_)
ReduxJobs(items) ==
    IF items = <<>> THEN <<>>
    ELSE (IF IsItemObject(Head(items)) THEN <<ReduxJob(Head(items))>> ELSE <<>>)
         \o ReduxJobs(Tail(items))

RECURSIVE TakeDigits(_)
TakeDigits(s) ==
    IF s # <<>> /\ IsDigit(Head(s)) THEN <<Head(s)>> \o TakeDigits(Tail(s)) ELSE <<>>

\* m = re.search(r'/job/(\d+)', href); m.group(1) if m else None
JobIdFromHref(href) ==
    LET hits == {i \in 1..Len(href) :
                    /\ StartsAt(href, i, sJobPath)
                    /\ i + 5 <= Len(href)
                    /\ IsDigit(href[i + 5])}
    IN  IF hits = {} THEN PyNone
        ELSE LET i == CHOOSE i \in hits : \A j \in hits : i <= j
             IN  PyS(TakeDigits(SubSeq(href, i + 5, Len(href))))

\* A DOM candidate carries: name (article or a), link_href (href of the job link found in it, or of
\* itself when it is an anchor; PyNone when there is no link), link_text,
\* heading (text of the first h1..h4), aria_label, data_job_id,
\* data_automation_id, and the stripped text of the company, location, salary
\* and date tags (PyNone when the tag is not found).
DomJobId(node) ==
    LET from_link == IF Truthy(node.link_href)
                     THEN JobIdFromHref(node.link_href.str)
                     ELSE PyNone
    IN  IF Truthy(from_link) THEN from_link
        ELSE PyOr(node.data_job_id, node.data_automation_id)

DomTitle(node) ==
    IF ~IsNone(node.link_href) /\ Truthy(node.link_text) THEN node.link_text
    ELSE IF Truthy(node.heading) THEN node.heading
    ELSE PyOr(node.aria_label, PyS(sUnknown))

TagText(tag_text, default) == IF IsNone(tag_text) THEN PyS(default) ELSE tag_text

DomJob(node) ==
    LET job_id == DomJobId(node)
    IN  [id |-> PyS(PyStr(job_id)),
         title |-> DomTitle(node),
         advertiser |-> TagText(node.company, sUnknown),
         location |-> TagText(node.location, sUnknown),
         salary |-> TagText(node.salary, sNA),
         url |-> IF Truthy(node.link_href) /\ StartsAt(node.link_href.str, 1, <<"/">>)
                 THEN PyS(BASE_URL \o node.link_href.str)
                 ELSE PyS(JobUrl(PyStr(job_id))),
         listingDate |-> TagText(node.date, sUnknown)]

\* candidates: every article, then every anchor whose href has /job/<digits>
\* (its enclosing article when it has one, which is a candidate already);
\* unique_candidates keeps the first occurrence of each element.
UniqueCandidates(dom) ==
    SelectSeq(dom, LAMBDA el : el.name = "article")
        \o SelectSeq(dom, LAMBDA el : /\ el.name = "a"
                                      /\ Truthy(el.link_href)
                                      /\ Truthy(JobIdFromHref(el.link_href.str)))

\* for node in unique_candidates: ... if not job_id: continue ... jobs.append
RECURSIVE DomJobs(_)
DomJobs(nodes) ==
    IF nodes = <<>> THEN <<>>
    ELSE (IF Truthy(DomJobId(Head(nodes))) THEN <<DomJob(Head(nodes))>> ELSE <<>>)
         \o DomJobs(Tail(nodes))

_parse_response(page) ==
    LET jobs == IF Truthy(page.redux) /\ IsDict(page.redux)
                THEN ReduxJobs(ResultsList(page.redux))
                ELSE <<>>
    IN  IF jobs # <<>> THEN jobs ELSE DomJobs(UniqueCandidates(page.dom))

----------------------------------------------------------------------------
(* The inputs of the model: configuration values and the pages the site serves *)

sAkl == <<"A", "k", "l">>
sAKL == <<"A", "U+212A", "L">>
sWlg == <<"W", "l", "g">>
\* the sentinel followed by a carriage return, as a field of the Redux JSON
sUnknownCR == <<"U", "n", "k", "n", "o", "w", "n", "\r">>
sQA == <<"Q", "A">>
sTest == <<"T", "e", "s", "t">>
sQAAuto == <<"Q", "A", " ", "A", "u", "t", "o">>
sAcme == <<"A", "c", "m", "e">>
\* an advertiser with cased letters outside A-Z: E acute, and a capital sigma
\* at the end of a word
sEcoCo == <<"U+00C9", "c", "o", "U+03A3", " ", "C", "o">>

\* SEARCH_KEYWORDS before the split: "QA,\v\r,Test" (the middle keyword is
\* blank: a vertical tab and a carriage return)
KeywordsEnv == <<"Q", "A", ",", "U+000B", "\r", ",", "T", "e", "s", "t">>

\* EXCLUDE_AUTOMATION_KEYWORDS before parsing: "Auto\r,\f," and a third keyword
\* in capitals: E acute, C, O, capital sigma
ExcludeEnv == <<"A", "u", "t", "o", "\r", ",", "\f", ",", "U+00C9", "C", "O", "U+03A3">>

\* SEARCH_LOCATION: "Akl", " akl\r\n,<U+2003>now" (two tokens between
\* whitespace, the second a substring of the lowered sentinel "unknown") and
\* "" (no location filter)
LocationConfigs ==
    {sAkl,
     <<" ", "a", "k", "l", "\r", "\n", ",", "U+2003", "n", "o", "w">>,
     <<>>}

Item(id, jobId, job_id, title, advertiser, location) ==
    [id |-> id, jobId |-> jobId, job_id |-> job_id,
     title |-> title, occupation |-> PyNone,
     advertiser |-> advertiser, location |-> location,
     salary |-> PyNone, listingDate |-> PyNone, postedDate |-> PyNone]

Redux(results_jobs, search_results_jobs, jobs) ==
    PyD([results_jobs |-> results_jobs,
         search_results_jobs |-> search_results_jobs,
         jobs |-> jobs])

Candidate(link_href, link_text, heading, data_job_id, company, location) ==
    [name |-> "article",
     link_href |-> link_href, link_text |-> link_text, heading |-> heading,
     aria_label |-> PyNone, data_job_id |-> data_job_id,
     data_automation_id |-> PyNone, company |-> company, location |-> location,
     salary |-> PyNone, date |-> PyNone]

\* Redux data at results.jobs: jobs 1 and 2, both in Akl.
PageA ==
    [redux |-> Redux(
        PyL(<<Item(PyI(1), PyNone, PyNone, PyS(sQA),
                   PyD([description |-> PyS(sAcme)]), PyS(sAkl)),
              Item(PyNone, PyS(<<"2">>), PyNone, PyS(sTest), PyS(sAcme), PyS(sAkl))>>),
        PyNone, PyNone),
     dom |-> <<>>]

\* Redux data at jobs (results.jobs is an empty list): job 2 again with other
\* fields (location "Unknown\r"), an item with no identifier, an item whose
\* identifiers are all falsy with job_id "", and an item that is not an object.
PageB ==
    [redux |-> Redux(
        PyL(<<>>), PyNone,
        PyL(<<Item(PyS(<<"2">>), PyNone, PyNone, PyS(sQA), PyNone, PyS(sUnknownCR)),
              Item(PyNone, PyNone, PyNone, PyS(sQA), PyS(sAcme), PyS(sAKL)),
              Item(PyI(0), PyNone, PyS(<<>>), PyS(sQA), PyS(sAcme), PyS(sAkl)),
              PyS(sQA)>>)),
     dom |-> <<>>]

\* No usable Redux blob; four elements in document order: a card linking to
\* job 3 of an excluded advertiser, whose location tag is empty, a card with
\* no link and no data attribute, a bare anchor whose href writes the job id
\* with the Arabic-Indic digit four, with no text and no company or location
\* tag, and a card identified by data-job-id 5 with an excluded title, in Akl.
PageC ==
    [redux |-> PyNone,
     dom |-> <<Candidate(PyS(sJobPath \o <<"3">>), PyS(sQA), PyNone, PyNone,
                         PyS(sEcoCo), PyS(<<>>)),
               Candidate(PyNone, PyS(<<>>), PyS(sTest), PyNone, PyS(sAcme), PyS(sAkl)),
               [Candidate(PyS(sJobPath \o <<"U+0664", "?", "t">>), PyS(<<>>), PyNone, PyNone,
                          PyNone, PyNone) EXCEPT !.name = "a"],
               Candidate(PyNone, PyS(<<>>), PyS(sQAAuto), PyS(<<"5">>),
                         PyS(sAcme), PyS(sAkl))>>]

\* A results page with no job on it.
PageD == [redux |-> Redux(PyL(<<>>), PyNone, PyNone), dom |-> <<>>]

Pages == <<PageA, PageB, PageC, PageD>>

----------------------------------------------------------------------------
(* State store, dedup and the per-job decision *)

MAX_RETRIES == 5

\* The cap of save_state, list(seen_ids)[-2000:], scaled down so that the
\* runs of the model can exceed it.
SeenCap == 2

\* The number of consecutive runs of the model.
MaxRuns == 2

\* The persisted file: absent, a JSON array of strings, or content json.load
\* rejects (the empty file open(..., 'w') leaves before anything is written).
FileAbsent == [absent |-> TRUE]
FileInvalid == [invalid |-> TRUE]
FileList(ids) == [list |-> ids]

\* load_state that never reads the file back
load_state_forgets(f) == {}

\* load_state(): set(map(str, data)), or set() when the file is absent or unreadable
load_state(f) == IF IsList(f) THEN {PyStr(PyS(f.list[i])) : i \in 1..Len(f.list)} ELSE {}

Min(a, b) == IF a <= b THEN a ELSE b

\* list(seen_ids): a set has no order of its own; iteration follows the hash
\* table, and str hashes are salted per process, so every order can come out.
ListOfSet(S) ==
    {l \in [1..Cardinality(S) -> S] : \A i, j \in 1..Cardinality(S) : l[i] = l[j] => i = j}

\* l[-n:]
LastN(l, n) == SubSeq(l, Len(l) - Min(Len(l), n) + 1, Len(l))

\* the lists save_state(seen_ids) can write: list(seen_ids)[-2000:]
save_state(seen_ids) == {LastN(l, SeenCap) : l \in ListOfSet(seen_ids)}

\* a dict that keeps the first value stored under a key
DictPut_keeps_first(d, j) ==
    IF \E i \in 1..Len(d) : d[i].id = j.id THEN d ELSE Append(d, j)

\* d[j['id']] = j on a dict kept as the sequence of its values in key order:
\* a new key goes last, an existing key keeps its place and takes the new value.
DictPut(d, j) ==
    IF \E i \in 1..Len(d) : d[i].id = j.id
    THEN [i \in 1..Len(d) |-> IF d[i].id = j.id THEN j ELSE d[i]]
    ELSE Append(d, j)

RECURSIVE DictFrom(_, _)
DictFrom(d, jobs) ==
    IF jobs = <<>> THEN d ELSE DictFrom(DictPut(d, Head(jobs)), Tail(jobs))

\* list({j['id']: j for j in all_found_jobs if j.get('id')}.values())
Dedup(jobs) == DictFrom(<<>>, SelectSeq(jobs, LAMBDA j : Truthy(j.id)))

\* What the loop of main does with one job of unique_jobs.
Verdict(job, seen, location, exclude) ==
    IF ~Truthy(job.id) THEN "skip"
    ELSE IF job.id.str \in seen THEN "skip"
    ELSE IF ~matches_location(job, location) THEN "location"
    ELSE IF looks_automated(job, exclude) THEN "automation"
    ELSE "notify"

----------------------------------------------------------------------------
(* The state machine *)

VARIABLES
    cfg,                  \* SEARCH_KEYWORDS, SEARCH_LOCATION, EXCLUDE_AUTOMATION_KEYWORDS
    file,                 \* content of STATE_FILE
    pc,                   \* position of main: start, search, notify, saving, done
    seen_jobs,            \* main: seen_jobs
    all_found_jobs,       \* main: all_found_jobs
    unique_jobs,          \* main: unique_jobs
    kwi,                  \* index of the keyword the loop of main is at
    attempt,              \* search: attempt
    ji,                   \* index of the job the loop over unique_jobs is at
    new_count,
    skipped_not_location,
    skipped_automation,
    \* history, read by the properties only
    run,                  \* number of the current run
    loaded,               \* what load_state returned in this run
    file_at_start,        \* the file as this run found it
    requests,             \* requests made by the current or last call of search
    retries,              \* how many of them ended in 403, 429 or RequestException
    last,                 \* the response to the latest of them
    ret,                  \* whether that call has returned, and what
    searched,             \* the calls of search that returned, this run: the keyword
                          \* index, and whether an unexpected status ended the call
    found_before,         \* Len(all_found_jobs) when the current or last call began
    sent,                 \* ids handed to send_job, all runs, in order
    sent_base,            \* Len(sent) when this run started
    failed,               \* the first id whose delivery failed, if any: one failed
                          \* delivery is followed through the runs
    dropped               \* <<run, id>> for every id a save_state of that run left out

vars == <<cfg, file, pc, seen_jobs, all_found_jobs, unique_jobs, kwi, attempt, ji,
          new_count, skipped_not_location, skipped_automation, run, loaded,
          file_at_start, requests, retries, last, ret, searched, found_before,
          sent, sent_base, failed, dropped>>

search_log == <<requests, retries, last, ret, searched, found_before>>

memory == <<seen_jobs, all_found_jobs, unique_jobs, kwi, attempt, ji,
            new_count, skipped_not_location, skipped_automation>>

NoRet == [returned |-> FALSE, jobs |-> <<>>]
NoResponse == [raised |-> FALSE, status_code |-> 0, page |-> 0]

Init ==
    /\ cfg \in [SEARCH_KEYWORDS : {Split(KeywordsEnv, ",")},
                SEARCH_LOCATION : LocationConfigs,
                EXCLUDE_AUTOMATION_KEYWORDS : {ParseExcludeKeywords(ExcludeEnv)}]
    /\ file = FileAbsent
    /\ pc = "start"
    /\ seen_jobs = {}
    /\ all_found_jobs = <<>>
    /\ unique_jobs = <<>>
    /\ kwi = 1
    /\ attempt = 1
    /\ ji = 1
    /\ new_count = 0
    /\ skipped_not_location = 0
    /\ skipped_automation = 0
    /\ run = 1
    /\ loaded = {}
    /\ file_at_start = FileAbsent
    /\ requests = 0
    /\ retries = 0
    /\ last = NoResponse
    /\ ret = NoRet
    /\ searched = <<>>
    /\ found_before = 0
    /\ sent = <<>>
    /\ sent_base = 0
    /\ failed = {}
    /\ dropped = {}

\* main: seen_jobs = load_state(); all_found_jobs = []
Load ==
    /\ pc = "start"
    /\ seen_jobs' = load_state(file)
    /\ loaded' = load_state(file)
    /\ file_at_start' = file
    /\ sent_base' = Len(sent)
    /\ all_found_jobs' = <<>>
    /\ kwi' = 1
    /\ pc' = "search"
    /\ UNCHANGED <<cfg, file, unique_jobs, attempt, ji, new_count,
                   skipped_not_location, skipped_automation, run, search_log, sent, failed, dropped>>

InKeywordLoop == pc = "search" /\ kwi <= Len(cfg.SEARCH_KEYWORDS)

\* k = keyword.strip(); if not k: continue
SkipBlankKeyword ==
    /\ InKeywordLoop
    /\ Strip(cfg.SEARCH_KEYWORDS[kwi]) = <<>>
    /\ kwi' = kwi + 1
    /\ UNCHANGED <<cfg, file, pc, seen_jobs, all_found_jobs, unique_jobs, attempt, ji,
                   new_count, skipped_not_location, skipped_automation, run, loaded,
                   file_at_start, search_log, sent, sent_base, failed, dropped>>

CanRequest == InKeywordLoop /\ Strip(cfg.SEARCH_KEYWORDS[kwi]) # <<>>

Retryable(r) == r.raised \/ r.status_code \in {403, 429}

\* the bookkeeping of one request of search: r is the response (or the exception)
Logged(r) ==
    /\ requests' = IF attempt = 1 THEN 1 ELSE requests + 1
    /\ retries' = (IF attempt = 1 THEN 0 ELSE retries) + (IF Retryable(r) THEN 1 ELSE 0)
    /\ last' = r
    /\ found_before' = IF attempt = 1 THEN Len(all_found_jobs) ELSE found_before

\* search returns jobs; main: if jobs: all_found_jobs.extend(jobs); next keyword
Return(jobs) ==
    /\ ret' = [returned |-> TRUE, jobs |-> jobs]
    /\ searched' = Append(searched, [keyword |-> kwi,
                                    aborted |-> ~Retryable(last') /\ last'.status_code # 200])
    /\ all_found_jobs' = IF jobs # <<>> THEN all_found_jobs \o jobs ELSE all_found_jobs
    /\ kwi' = kwi + 1
    /\ attempt' = 1

\* a retry loop that gives up one attempt early
Retry_one_short ==
    IF attempt < MAX_RETRIES - 1
    THEN /\ attempt' = attempt + 1
         /\ ret' = NoRet
         /\ UNCHANGED <<all_found_jobs, kwi, searched>>
    ELSE Return(<<>>)

\* search sleeps and goes to the next attempt, or falls out of the loop: return []
Retry ==
    IF attempt < MAX_RETRIES
    THEN /\ attempt' = attempt + 1
         /\ ret' = NoRet
         /\ UNCHANGED <<all_found_jobs, kwi, searched>>
    ELSE Return(<<>>)

search_frame ==
    UNCHANGED <<cfg, file, pc, seen_jobs, unique_jobs, ji, new_count,
                skipped_not_location, skipped_automation, run, loaded,
                file_at_start, sent, sent_base, failed, dropped>>

\* resp.status_code == 200: return self._parse_response(resp.text)
RequestOK ==
    /\ CanRequest
    /\ \E p \in 1..Len(Pages) :
        /\ Logged([raised |-> FALSE, status_code |-> 200, page |-> p])
        /\ Return(_parse_response(Pages[p]))
    /\ search_frame

\* resp.status_code in (403, 429): sleep, continue
RequestBlocked ==
    /\ CanRequest
    /\ \E status \in {403, 429} :
        Logged([raised |-> FALSE, status_code |-> status, page |-> 0])
    /\ Retry
    /\ search_frame

\* except RequestException: sleep (and the loop goes on)
RequestFailed ==
    /\ CanRequest
    /\ Logged([raised |-> TRUE, status_code |-> 0, page |-> 0])
    /\ Retry
    /\ search_frame

\* an unexpected status handled like a blocked one: sleep and try again
RequestOtherStatus_retries ==
    /\ CanRequest
    /\ \E status \in {404, 500} :
        Logged([raised |-> FALSE, status_code |-> status, page |-> 0])
    /\ Retry
    /\ search_frame

\* any other status: break, return []
RequestOtherStatus ==
    /\ CanRequest
    /\ \E status \in {404, 500} :
        Logged([raised |-> FALSE, status_code |-> status, page |-> 0])
    /\ Return(<<>>)
    /\ search_frame

\* after the keyword loop: unique_jobs = ...; the three counters start at 0
Deduplicate ==
    /\ pc = "search"
    /\ kwi > Len(cfg.SEARCH_KEYWORDS)
    /\ unique_jobs' = Dedup(all_found_jobs)
    /\ new_count' = 0
    /\ skipped_not_location' = 0
    /\ skipped_automation' = 0
    /\ ji' = 1
    /\ pc' = "notify"
    /\ requests' = 0
    /\ retries' = 0
    /\ last' = NoResponse
    /\ ret' = NoRet
    /\ searched' = <<>>
    /\ found_before' = 0
    /\ UNCHANGED <<cfg, file, seen_jobs, all_found_jobs, kwi, attempt, run, loaded,
                   file_at_start, sent, sent_base, failed, dropped>>

InJobLoop == pc = "notify" /\ ji <= Len(unique_jobs)

JobVerdict ==
    Verdict(unique_jobs[ji], seen_jobs, cfg.SEARCH_LOCATION,
            cfg.EXCLUDE_AUTOMATION_KEYWORDS)

loop_frame ==
    UNCHANGED <<cfg, file, all_found_jobs, unique_jobs, kwi, attempt, run, loaded,
                file_at_start, search_log, sent_base, dropped>>

job_frame == loop_frame /\ UNCHANGED pc

\* if not jid: continue / jid in seen_jobs: nothing happens
SkipJob ==
    /\ InJobLoop
    /\ JobVerdict = "skip"
    /\ ji' = ji + 1
    /\ UNCHANGED <<seen_jobs, new_count, skipped_not_location, skipped_automation,
                   sent, failed>>
    /\ job_frame

SkipLocation ==
    /\ InJobLoop
    /\ JobVerdict = "location"
    /\ skipped_not_location' = skipped_not_location + 1
    /\ ji' = ji + 1
    /\ UNCHANGED <<seen_jobs, new_count, skipped_automation, sent, failed>>
    /\ job_frame

SkipAutomation ==
    /\ InJobLoop
    /\ JobVerdict = "automation"
    /\ skipped_automation' = skipped_automation + 1
    /\ ji' = ji + 1
    /\ UNCHANGED <<seen_jobs, new_count, skipped_not_location, sent, failed>>
    /\ job_frame

\* a loop that counts the job but leaves seen_jobs.add(jid) out
MarkSeen_not_added ==
    /\ new_count' = new_count + 1
    /\ ji' = ji + 1
    /\ UNCHANGED seen_jobs

\* seen_jobs.add(jid); new_count += 1, and the loop goes to the next job
MarkSeen ==
    /\ seen_jobs' = seen_jobs \cup {unique_jobs[ji].id.str}
    /\ new_count' = new_count + 1
    /\ ji' = ji + 1

\* notifier.send_job(job), DRY_RUN off: requests.post.  An answer, 200 or not
\* (a non-200 one is logged), is followed by time.sleep(0.4), and main goes on
\* after the wait; an exception of the post is logged and main goes on at once.
SendJob ==
    /\ InJobLoop
    /\ JobVerdict = "notify"
    /\ sent' = Append(sent, unique_jobs[ji].id.str)
    /\ \E outcome \in {"delivered", "status_not_200", "exception"} :
        /\ failed' = IF outcome = "delivered" \/ failed # {} THEN failed
                     ELSE {unique_jobs[ji].id.str}
        /\ IF outcome = "exception"
           THEN MarkSeen /\ UNCHANGED pc
           ELSE pc' = "throttle" /\ UNCHANGED <<seen_jobs, new_count, ji>>
    /\ UNCHANGED <<skipped_not_location, skipped_automation>>
    /\ loop_frame

\* the wait of send_job is over: send_job returns, main records the job
Throttled ==
    /\ pc = "throttle"
    /\ MarkSeen
    /\ pc' = "notify"
    /\ UNCHANGED <<skipped_not_location, skipped_automation, sent, failed>>
    /\ loop_frame

AfterJobLoop == pc = "notify" /\ ji > Len(unique_jobs)

\* if new_count: save_state(seen_jobs) - open(STATE_FILE, 'w') empties the file
SaveOpen ==
    /\ AfterJobLoop
    /\ new_count # 0
    /\ file' = FileInvalid
    /\ pc' = "saving"
    /\ UNCHANGED <<cfg, memory, run, loaded, file_at_start, search_log,
                   sent, sent_base, failed, dropped>>

\* json.dump(limited_ids, f) and the close of the file
SaveWrite ==
    /\ pc = "saving"
    /\ \E l \in save_state(seen_jobs) :
        /\ file' = FileList(l)
        /\ dropped' = dropped \cup {<<run, id>> : id \in seen_jobs \ Range(l)}
    /\ pc' = "done"
    /\ UNCHANGED <<cfg, memory, run, loaded, file_at_start, search_log,
                   sent, sent_base, failed>>

\* else: "No new jobs found"
NoSave ==
    /\ AfterJobLoop
    /\ new_count = 0
    /\ pc' = "done"
    /\ UNCHANGED <<cfg, file, memory, run, loaded, file_at_start, search_log, sent, sent_base, failed, dropped>>

\* The process exits; the scheduler starts the next run, which keeps the file only.
NextRun ==
    /\ pc = "done"
    /\ run < MaxRuns
    /\ run' = run + 1
    /\ pc' = "start"
    /\ seen_jobs' = {}
    /\ all_found_jobs' = <<>>
    /\ unique_jobs' = <<>>
    /\ kwi' = 1
    /\ attempt' = 1
    /\ ji' = 1
    /\ new_count' = 0
    /\ skipped_not_location' = 0
    /\ skipped_automation' = 0
    /\ loaded' = {}
    /\ UNCHANGED search_log
    /\ UNCHANGED <<cfg, file, file_at_start, sent, sent_base, failed, dropped>>

Next ==
    \/ Load
    \/ SkipBlankKeyword
    \/ RequestOK
    \/ RequestBlocked
    \/ RequestFailed
    \/ RequestOtherStatus
    \/ Deduplicate
    \/ SkipJob
    \/ SkipLocation
    \/ SkipAutomation
    \/ SendJob
    \/ Throttled
    \/ SaveOpen
    \/ SaveWrite
    \/ NoSave
    \/ NextRun

Spec == Init /\ [][Next]_vars

TypeOK ==
    /\ pc \in {"start", "search", "notify", "throttle", "saving", "done"}
    /\ attempt \in 1..MAX_RETRIES
    /\ run \in 1..MaxRuns

----------------------------------------------------------------------------
(* _parse_response on its own: one call per page of a bounded family *)

sSalary == <<"9", "0", "k">>
sDate == <<"1", "d">>

\* The longest item list of a page of the family.
MaxItems == 2

\* Redux items that are JSON objects with an identifier:
\*   only id;
\*   jobId, title, a flat advertiser, location, salary, listingDate;
\*   job_id, occupation, an advertiser object with a description, postedDate;
\*   id and jobId, title and occupation, an advertiser object that has no
\*   description, listingDate and postedDate.
ParseItems ==
    {Item(PyI(1), PyNone, PyNone, PyNone, PyNone, PyNone),
     [Item(PyNone, PyS(<<"2">>), PyNone, PyS(sQA), PyS(sAcme), PyS(sAkl))
        EXCEPT !.salary = PyS(sSalary), !.listingDate = PyS(sDate)],
     [Item(PyNone, PyNone, PyS(<<"3">>), PyNone,
           PyD([description |-> PyS(sAcme)]), PyNone)
        EXCEPT !.occupation = PyS(sTest), !.postedDate = PyS(sDate)],
     [Item(PyI(4), PyS(<<"2">>), PyNone, PyS(sQA),
           PyD([description |-> PyNone]), PyS(sWlg))
        EXCEPT !.occupation = PyS(sTest), !.listingDate = PyS(sDate),
               !.postedDate = PyS(sAkl)]}

\* the item lists of 1..MaxItems items
ParseLists == UNION {[1..n -> ParseItems] : n \in 1..MaxItems}

\* What a known path resolves to when it holds no item list: nothing (a key
\* is missing on the way) or an empty list.
PathMisses == {PyNone, PyL(<<>>)}

\* The Redux objects of the family: an item list at one of the three paths,
\* the paths before it holding no item list, the paths after it holding
\* nothing or another list.
ParseRedux ==
    LET later == {PyNone, PyL(<<Item(PyI(9), PyNone, PyNone, PyNone, PyNone, PyNone)>>)}
    IN  {Redux(PyL(l), a, b) : l \in ParseLists, a \in later, b \in later}
        \cup {Redux(m, PyL(l), b) : m \in PathMisses, l \in ParseLists, b \in later}
        \cup {Redux(m, n, PyL(l)) : m \in PathMisses, n \in PathMisses, l \in ParseLists}

\* The pages of the family: each Redux object over a document with no job
\* card and over the job cards of PageC; and pages with no item list.
ParsePages ==
    {[redux |-> r, dom |-> d] : r \in ParseRedux, d \in {<<>>, PageC.dom}}
        \cup {PageC, PageD}

\* A 200 response carrying one page of the family is at hand.
ParseInit ==
    /\ cfg \in [SEARCH_KEYWORDS : {Split(KeywordsEnv, ",")},
                SEARCH_LOCATION : {<<>>},
                EXCLUDE_AUTOMATION_KEYWORDS : {ParseExcludeKeywords(ExcludeEnv)}]
    /\ file = FileAbsent
    /\ pc = "parse"
    /\ seen_jobs = {}
    /\ all_found_jobs = <<>>
    /\ unique_jobs = <<>>
    /\ kwi = 1
    /\ attempt = 1
    /\ ji = 1
    /\ new_count = 0
    /\ skipped_not_location = 0
    /\ skipped_automation = 0
    /\ run = 1
    /\ loaded = {}
    /\ file_at_start = FileAbsent
    /\ requests = 1
    /\ retries = 0
    /\ \E page \in ParsePages :
        last = [raised |-> FALSE, status_code |-> 200, page |-> page]
    /\ ret = NoRet
    /\ searched = <<>>
    /\ found_before = 0
    /\ sent = <<>>
    /\ sent_base = 0
    /\ failed = {}
    /\ dropped = {}

\* return self._parse_response(resp.text)
ParseStep ==
    /\ pc = "parse"
    /\ ret' = [returned |-> TRUE, jobs |-> _parse_response(last.page)]
    /\ pc' = "parsed"
    /\ UNCHANGED <<cfg, file, seen_jobs, all_found_jobs, unique_jobs, kwi, attempt, ji,
                   new_count, skipped_not_location, skipped_automation, run, loaded,
                   file_at_start, requests, retries, last, searched, found_before,
                   sent, sent_base, failed, dropped>>

ParseNext == ParseStep

ParseSpec == ParseInit /\ [][ParseNext]_vars

----------------------------------------------------------------------------
(* Properties *)

NoDup(s) == \A i, j \in 1..Len(s) : s[i] = s[j] => i = j

Occurrences(s, x) == Cardinality({i \in 1..Len(s) : s[i] = x})

\* the ids handed to send_job in the current run, in order
SentThisRun == SubSeq(sent, sent_base + 1, Len(sent))

\* the run is past its job loop
JobsProcessed == AfterJobLoop \/ pc \in {"saving", "done"}

\* unique_jobs holds the deduplication of all_found_jobs
Deduplicated == pc \in {"notify", "throttle", "saving", "done"}

FileIds == IF IsList(file) THEN Range(file.list) ELSE {}

\* C1, as stated: over all runs, every job id is handed to send_job at most
\* once (so a second run over the same candidates sends nothing).
C1_NotifiedAtMostOnce == NoDup(sent)

\* the number of saves that left the id out of the file
TimesDropped(id) == Cardinality({d \in dropped : d[2] = id})

\* C1, amended: over all runs, a job id is handed to send_job once, and once
\* more only for each save_state that left that id out of the file; an id no
\* save has left out is handed over at most once.
C1_NotifiedOncePerDrop ==
    \A id \in Range(sent) : Occurrences(sent, id) <= 1 + TimesDropped(id)

\* A second run, after a save that left an id out: it meets a job the first
\* run notified and the save kept, which it would notify again were it not
\* seen, and does not notify it; the job the save left out it notifies again.
C1_Witness ==
    /\ run = 2
    /\ pc = "done"
    /\ \E k \in 1..Len(unique_jobs) :
        /\ unique_jobs[k].id.str \in loaded
        /\ TimesDropped(unique_jobs[k].id.str) = 0
        /\ Occurrences(sent, unique_jobs[k].id.str) = 1
        /\ Verdict(unique_jobs[k], {}, cfg.SEARCH_LOCATION,
                   cfg.EXCLUDE_AUTOMATION_KEYWORDS) = "notify"
    /\ \E id \in Range(sent) :
        /\ TimesDropped(id) = 1
        /\ Occurrences(sent, id) = 2

\* C2: once more distinct ids than the cap have been inserted, the file
\* save_state wrote holds the cap's worth of most recently inserted ids, in
\* insertion order.
C2_SavedMostRecentInOrder ==
    (pc = "done" /\ new_count # 0 /\ NoDup(sent) /\ Len(sent) > SeenCap)
        => (IsList(file) /\ file.list = LastN(sent, SeenCap))

\* the non-empty identifiers the items of a page carry
ListItems(node) == IF IsList(node) THEN Range(node.list) ELSE {}

ReduxItems(page) ==
    IF IsDict(page.redux)
    THEN UNION {ListItems(PathNode(page.redux, ReduxPaths[i])) : i \in 1..Len(ReduxPaths)}
    ELSE {}

ItemIdentifiers(item) ==
    IF IsItemObject(item)
    THEN {PyStr(v) : v \in {w \in {item.id, item.jobId, item.job_id} : Truthy(w)}}
    ELSE {}

CandidateIdentifiers(node) ==
    LET link_id == IF IsStr(node.link_href) THEN JobIdFromHref(node.link_href.str)
                   ELSE PyNone
    IN  {v.str : v \in {w \in {link_id, node.data_job_id, node.data_automation_id} :
                            Truthy(w)}}

CarriedIdentifiers ==
    UNION {UNION {ItemIdentifiers(it) : it \in ReduxItems(Pages[p])}
           \cup UNION {CandidateIdentifiers(Pages[p].dom[i]) : i \in 1..Len(Pages[p].dom)}
           : p \in 1..Len(Pages)}

\* C3: an item that carries no non-empty identifier is never notified and adds
\* nothing to the seen set or the file: every id notified, seen or persisted
\* is an identifier some item carries.
C3_OnlyCarriedIdentifiers ==
    Range(sent) \cup seen_jobs \cup FileIds \subseteq CarriedIdentifiers

\* the non-empty ids of the records the searches of this run returned
ReturnedIds ==
    {all_found_jobs[i].id.str : i \in 1..Len(all_found_jobs)} \ {<<>>}

NothingRejected ==
    \A i \in 1..Len(all_found_jobs) :
        /\ matches_location(all_found_jobs[i], cfg.SEARCH_LOCATION)
        /\ ~looks_automated(all_found_jobs[i], cfg.EXCLUDE_AUTOMATION_KEYWORDS)

\* C4: with nothing seen before and no record rejected by a filter, the ids
\* notified in the run are exactly the union of the ids the searches
\* returned, each once, and the seen set after the run is that union.
C4_NotifiedIsUnion ==
    (JobsProcessed /\ loaded = {} /\ NothingRejected)
        => /\ Range(SentThisRun) = ReturnedIds
           /\ NoDup(SentThisRun)
           /\ seen_jobs = ReturnedIds

\* Two searches returned overlapping sets of ids, three ids in all.
C4_Witness ==
    /\ pc = "done"
    /\ loaded = {}
    /\ NothingRejected
    /\ Cardinality(ReturnedIds) >= 3
    /\ \E i, j \in 1..Len(all_found_jobs) :
        i # j /\ all_found_jobs[i].id = all_found_jobs[j].id
    /\ Len(SentThisRun) = Cardinality(ReturnedIds)

LastIndexOf(jobs, id) ==
    CHOOSE i \in 1..Len(jobs) :
        jobs[i].id = id /\ \A j \in (i + 1)..Len(jobs) : jobs[j].id # id

\* C5: deduplication keeps exactly one record for every non-empty id of the
\* aggregate, the last one in aggregation order, and nothing else.
C5_LastOccurrenceWins ==
    Deduplicated =>
        /\ \A i \in 1..Len(all_found_jobs) :
            Truthy(all_found_jobs[i].id) =>
                /\ Cardinality({k \in 1..Len(unique_jobs) :
                                   unique_jobs[k].id = all_found_jobs[i].id}) = 1
                /\ \A k \in 1..Len(unique_jobs) :
                    unique_jobs[k].id = all_found_jobs[i].id =>
                        unique_jobs[k] =
                            all_found_jobs[LastIndexOf(all_found_jobs,
                                                       all_found_jobs[i].id)]
        /\ \A k \in 1..Len(unique_jobs) :
            /\ Truthy(unique_jobs[k].id)
            /\ \E i \in 1..Len(all_found_jobs) : all_found_jobs[i].id = unique_jobs[k].id

\* The aggregate holds two different records with the same id.
C5_Witness ==
    /\ pc = "notify"
    /\ \E i, j \in 1..Len(all_found_jobs) :
        /\ i < j
        /\ Truthy(all_found_jobs[i].id)
        /\ all_found_jobs[i].id = all_found_jobs[j].id
        /\ all_found_jobs[i] # all_found_jobs[j]

\* an HTTP status other than 200, 403 and 429 (status_code 0: no response yet)
Unexpected(r) == ~r.raised /\ r.status_code \notin {0, 200, 403, 429}

\* C6: when the first k-1 attempts of a search end in 403, 429 or a network
\* error and attempt k answers 200, search makes exactly k requests and
\* returns the extraction of that answer; it keeps trying while attempts are
\* left, and after MAX_RETRIES such failures it returns the empty list.
C6_RetryThenResult ==
    /\ requests <= MAX_RETRIES
    /\ (ret.returned /\ last.status_code = 200)
        => /\ requests = retries + 1
           /\ ret.jobs = _parse_response(Pages[last.page])
    /\ (ret.returned /\ Retryable(last))
        => /\ requests = MAX_RETRIES
           /\ retries = MAX_RETRIES
           /\ ret.jobs = <<>>
    /\ (requests > 0 /\ requests < MAX_RETRIES /\ Retryable(last))
        => /\ ~ret.returned
           /\ retries = requests
           /\ CanRequest
           /\ attempt = requests + 1

\* Three failures, then a 200 on the fourth attempt, and jobs extracted.
C6_Witness ==
    /\ ret.returned
    /\ last.status_code = 200
    /\ retries = 3
    /\ requests = 4
    /\ ret.jobs # <<>>

NonBlankBefore(k) ==
    {i \in 1..(k - 1) : i <= Len(cfg.SEARCH_KEYWORDS) /\ Strip(cfg.SEARCH_KEYWORDS[i]) # <<>>}

\* C7: an unexpected status ends the search of that keyword at once, with no
\* item added to the aggregate, and the loop goes on: the searches that have
\* returned are those of the non-blank keywords before the current one, each
\* once and in order.
C7_UnexpectedStatusSkipsKeyword ==
    /\ (requests > 0 /\ Unexpected(last))
        => /\ ret.returned
           /\ ret.jobs = <<>>
           /\ Len(all_found_jobs) = found_before
           /\ searched[Len(searched)].aborted
           /\ searched[Len(searched)].keyword < kwi
    /\ pc = "search"
        => /\ {searched[i].keyword : i \in 1..Len(searched)}
                = NonBlankBefore(kwi)
           /\ \A i, j \in 1..Len(searched) :
                i < j => searched[i].keyword < searched[j].keyword

\* The search of the first keyword was cut short by an unexpected status, and
\* the last keyword was searched all the same and returned jobs.
C7_Witness ==
    /\ pc = "search"
    /\ kwi > Len(cfg.SEARCH_KEYWORDS)
    /\ Len(searched) = 2
    /\ searched[1].aborted
    /\ ~searched[2].aborted
    /\ all_found_jobs # <<>>

\* the file a completed save_state leaves for the current seen set
CompleteState(f) ==
    /\ IsList(f)
    /\ NoDup(f.list)
    /\ Range(f.list) \subseteq seen_jobs
    /\ Len(f.list) = Min(Cardinality(seen_jobs), SeenCap)

\* C8: wherever the run may be stopped, the file is either what the run found
\* at its start or the complete state of its end, never anything in between.
C8_FileWholeOrUntouched ==
    pc \in {"search", "notify", "throttle", "saving", "done"}
        => (file = file_at_start \/ (pc = "done" /\ CompleteState(file)))

\* C9: a job whose delivery failed is in the seen set all the same, is in the
\* file the run writes, and is never handed to send_job again.
C9_FailedDeliveryStaysSeen ==
    /\ \A id \in failed : Occurrences(sent, id) = 1
    /\ JobsProcessed => (failed \cap Range(SentThisRun)) \subseteq seen_jobs
    /\ pc = "done" => (failed \cap Range(SentThisRun)) \subseteq FileIds

\* the jobs of unique_jobs the loop of main has dealt with
Processed ==
    IF pc \in {"notify", "throttle"} THEN ji - 1
    ELSE IF pc \in {"saving", "done"} THEN Len(unique_jobs)
    ELSE 0

\* the non-blank comma-separated tokens of the configured location, lowered
LocationTokens(configured) ==
    {Lower(Strip(t)) : t \in Range(Split(configured, ","))} \ {<<>>}

\* the location is the sentinel Unknown or N/A, as written
IsSentinel(loc) == loc \in {sUnknown, sNA}

\* the location is a sentinel once surrounding whitespace is removed and it
\* is lowered
IsSentinelFolded(loc) == Lower(Strip(loc)) \in {Lower(sUnknown), Lower(sNA)}

LocationAccepted(job, Sentinel(_)) ==
    \/ cfg.SEARCH_LOCATION = <<>>
    \/ /\ IsStr(job.location)
       /\ job.location.str # <<>>
       /\ ~Sentinel(job.location.str)
       /\ \E t \in LocationTokens(cfg.SEARCH_LOCATION) :
            Contains(t, Lower(job.location.str))

FieldContains(v, kw) == IsStr(v) /\ Contains(kw, Lower(v.str))

Excluded(job) ==
    \E kw \in Range(cfg.EXCLUDE_AUTOMATION_KEYWORDS) :
        FieldContains(job.title, kw) \/ FieldContains(job.advertiser, kw)

ShouldNotify(job, Sentinel(_)) ==
    /\ job.id.str \notin loaded
    /\ LocationAccepted(job, Sentinel)
    /\ ~Excluded(job)

\* A deduplicated record is notified and its id added to the seen set exactly
\* when its id was not in the loaded seen set, its location is accepted and
\* no exclusion keyword occurs in its title or advertiser; a rejected record
\* is not added and is counted under one reason.  (During the wait of
\* send_job the job at hand is sent and not yet recorded.)
NotifiedIffNewAndAccepted(Sentinel(_)) ==
    Deduplicated =>
        LET id(k) == unique_jobs[k].id.str
            fresh == {k \in 1..Processed : id(k) \notin loaded}
            accepted == {k \in fresh : LocationAccepted(unique_jobs[k], Sentinel)}
            notify == {k \in 1..Processed : ShouldNotify(unique_jobs[k], Sentinel)}
        IN  /\ \A k \in 1..Processed :
                /\ (id(k) \in Range(SentThisRun)) <=> (k \in notify)
                /\ (id(k) \in seen_jobs) <=> (id(k) \in loaded \/ k \in notify)
            /\ new_count = Cardinality(notify)
            /\ Len(SentThisRun) = new_count + (IF pc = "throttle" THEN 1 ELSE 0)
            /\ skipped_not_location = Cardinality(fresh \ accepted)
            /\ skipped_automation = Cardinality(accepted \ notify)

\* C10, as stated: a deduplicated record is notified and added to the seen
\* set exactly when it is new, its location is non-empty, is not the sentinel
\* Unknown or N/A and contains a configured token, and no exclusion keyword
\* occurs in its title or advertiser; a rejected record is counted under one
\* reason.
C10_NotifiedIffNewAndAccepted == NotifiedIffNewAndAccepted(IsSentinel)

\* C10, amended: the same, the location being a sentinel when it is Unknown
\* or N/A after its surrounding whitespace is removed and it is lowered.
C10_NotifiedIffNewAndAcceptedFolded == NotifiedIffNewAndAccepted(IsSentinelFolded)

\* A run with a two-token location that notified a new job, rejected one for
\* its sentinel location though a token occurs in it, rejected one whose
\* location is a sentinel only without its trailing whitespace, and rejected
\* one for an exclusion keyword.
C10_Witness ==
    /\ pc = "done"
    /\ Cardinality(LocationTokens(cfg.SEARCH_LOCATION)) = 2
    /\ new_count >= 1
    /\ skipped_automation >= 1
    /\ \E k \in 1..Len(unique_jobs) :
        /\ unique_jobs[k].location = PyS(sUnknown)
        /\ \E t \in LocationTokens(cfg.SEARCH_LOCATION) :
            Contains(t, Lower(sUnknown))
        /\ unique_jobs[k].id.str \notin seen_jobs
    /\ \E k \in 1..Len(unique_jobs) :
        /\ unique_jobs[k].location = PyS(sUnknownCR)
        /\ ~IsSentinel(sUnknownCR)
        /\ \E t \in LocationTokens(cfg.SEARCH_LOCATION) :
            Contains(t, Lower(sUnknownCR))
        /\ unique_jobs[k].id.str \notin seen_jobs

\* the item list structured extraction works on: the first of the known
\* paths, in their order, that holds a non-empty list
C11_ItemList(page) ==
    LET at(path) == PathNode(page.redux, path)
        holds(path) == IsList(at(path)) /\ at(path).list # <<>>
    IN  IF ~IsDict(page.redux) THEN <<>>
        ELSE IF holds("results_jobs") THEN at("results_jobs").list
        ELSE IF holds("search_results_jobs") THEN at("search_results_jobs").list
        ELSE IF holds("jobs") THEN at("jobs").list
        ELSE <<>>

\* the first value that is present, or the sentinel
FirstPresent(values, sentinel) ==
    LET present == {i \in 1..Len(values) : ~IsNone(values[i])}
    IN  IF present = {} THEN PyS(sentinel)
        ELSE values[CHOOSE i \in present : \A j \in present : i <= j]

\* the record the specification gives for one item
C11_Record(item) ==
    [id |-> PyS(PyStr(FirstPresent(<<item.id, item.jobId, item.job_id>>, <<>>))),
     title |-> FirstPresent(<<item.title, item.occupation>>, sUnknown),
     advertiser |-> IF IsDict(item.advertiser)
                    THEN FirstPresent(<<item.advertiser.dict.description>>, sUnknown)
                    ELSE FirstPresent(<<item.advertiser>>, sUnknown),
     location |-> FirstPresent(<<item.location>>, sUnknown),
     salary |-> FirstPresent(<<item.salary>>, sNA),
     listingDate |-> FirstPresent(<<item.listingDate, item.postedDate>>, sUnknown)]

\* the fields of a returned record the specification speaks of
C11_Fields(job) ==
    [id |-> job.id, title |-> job.title, advertiser |-> job.advertiser,
     location |-> job.location, salary |-> job.salary,
     listingDate |-> job.listingDate]

\* C11: when one of the known paths, probed in order, holds a non-empty list
\* of JSON objects, _parse_response returns one record per item of that list,
\* in order, each field taken from the item or set to its sentinel when the
\* item lacks it (advertiser Unknown also for an advertiser object without a
\* description), and returns nothing from the DOM.
C11_OneRecordPerItem ==
    (pc = "parsed" /\ C11_ItemList(last.page) # <<>>) =>
        LET items == C11_ItemList(last.page)
        IN  /\ Len(ret.jobs) = Len(items)
            /\ \A k \in 1..Len(items) :
                C11_Fields(ret.jobs[k]) = C11_Record(items[k])

====
